---- MODULE Spec2Model ----
(***************************************************************************)
(* A model of the FIRE fact-checker: the Serper search client             *)
(* (src/eval/fire/query_serper.py), the citation scan of the web app       *)
(* (src/app.py) and the claim-verification run that drives them.           *)
(*                                                                         *)
(* Text is a sequence of tokens.  A token is a run of characters that      *)
(* holds no ']' and no newline and spells no part of a citation marker,    *)
(* except for the tokens named below, which stand for exactly the          *)
(* characters the code and the regular expression of app.py look at.       *)
(***************************************************************************)
EXTENDS Integers, Sequences, FiniteSets, TLC

VARIABLES
    \* ---- SerperAPI object (query_serper.py:25-30)
    serper_api_key,   \* self.serper_api_key
    k,                \* self.k
    \* ---- one call of SerperAPI.run / _google_serper_api_results
    spc,              \* position of the call: "idle", "loop", "posting", "done"
    query,            \* search_term
    max_retries,      \* max_retries
    response,         \* "none" (None), "ok" (status < 400), "bad" (status >= 400)
    num_fails,        \* num_fails
    sleep_time,       \* sleep_time, in tenths of a second
    attempts,         \* number of requests.post calls made by this call
    num_bad,          \* how many of them were answered with a status >= 400
    slept,            \* the delays handed to time.sleep, in order
    ret,              \* outcome of run(): [kind, text]
    \* ---- parsing and citation scan
    results,          \* the backend's JSON response
    items,            \* _parse_snippets_with_links(results)
    text,             \* _parse_results(results)
    sources,          \* re.findall(source_pattern, result_text)
    clean_text,       \* re.sub(source_pattern, '', result_text).strip()
    ppc,              \* position of the parsing pipeline
    \* ---- one run of verify(claim, model_config)
    status,           \* "AWAITING_DECISION", "SEARCHING", "DONE", "FAILED"
    budget,           \* iteration budget: the most LLM calls of the run
    llm_calls,        \* iteration count: LLM calls made so far
    usage,            \* cumulative Usage [input_tokens, output_tokens]
    batches,          \* the ordered Search Batches [query, result]
    verdict,          \* "none" (null), "TRUE" or "FALSE"
    reprompt,         \* the next LLM call is the corrective re-prompt
    pending,          \* query of the search directive being served
    returned,         \* what verify handed to its caller: [done, verdict, batches, usage]
    calls,            \* history: the LLM calls of the run, in order
    searches,         \* history: the search calls of the run that have ended
    \* ---- decision parsing of one LLM reply
    reply_text,       \* the free-text reply
    decision,         \* the Decision parsed from it
    dpc,              \* "idle", "start" or "decided"
    \* ---- the batch evaluation loop of test_gemini.py
    bpc,              \* "idle", "loop" or "summary"
    processed,        \* claims the loop has gone through
    failed_cnt,
    total_usage,
    written,          \* the lines written to the output file
    outcomes,         \* history: what verify_atomic_claim returned, per claim
    \* ---- several runs side by side
    runs,             \* the Run State of each run
    own,              \* history: per run, the usage and the batches of its own calls
    \* ---- one session of the interactive app
    session_model,    \* st.session_state.model
    model_option,     \* the sidebar's selected model
    temperature,      \* the sidebar's temperature, in tenths
    max_tokens,       \* the sidebar's max tokens
    history,          \* st.session_state.history
    submissions       \* history: per processed submission, the model cached
                      \* before it, the settings selected and the model used

searchVars == <<spc, query, max_retries, response, num_fails, sleep_time,
                attempts, num_bad, slept, ret>>
parseVars == <<results, items, text, sources, clean_text, ppc>>
clientVars == <<serper_api_key, k>>
runVars == <<status, budget, llm_calls, usage, batches, verdict, reprompt, pending,
             returned, calls, searches>>
decideVars == <<reply_text, decision, dpc>>
batchVars == <<bpc, processed, failed_cnt, total_usage, written, outcomes>>
multiVars == <<runs, own>>
appVars == <<session_model, model_option, temperature, max_tokens, history, submissions>>
otherVars == <<decideVars, batchVars, multiVars, appVars>>
vars == <<clientVars, searchVars, parseVars, runVars, otherVars>>

Min(a, b) == IF a <= b THEN a ELSE b

(***************************************************************************)
(* Tokens with a meaning.                                                  *)
(***************************************************************************)
SP == " "
NL == "\n"
RBRACKET == "]"
SOURCE_OPEN == "[Source: "
Schemes == {"http://", "https://"}

(***************************************************************************)
(* JSON field values: an absent key or null, a string, a non-zero number.  *)
(***************************************************************************)
None == [t |-> "none", v |-> <<>>]
Str(s) == [t |-> "str", v |-> s]
Num(s) == [t |-> "num", v |-> s]

\* Python truth value of a field value
Truthy(x) == x.t = "num" \/ (x.t = "str" /\ x.v # <<>>)
\* isinstance(x, str)
IsStr(x) == x.t = "str"
\* dict.get(key, default) for a text default
GetOr(x, default) == IF x.t = "none" THEN default ELSE x.v

NO_RESULT_MSG == <<"No good Google Search result was found">>

\* One evidence item.  sec and rank record where the item was produced
\* (1 answer-box answer, 2 answer-box snippet, 3 knowledge-graph type line,
\* 4 knowledge-graph description, 5 knowledge-graph attribute, 6 ranked
\* snippet, 7 ranked attribute; rank is the position of the ranked result).
Item(snippet, link, title, sec, rank) ==
    [snippet |-> snippet, link |-> link, title |-> title, sec |-> sec, rank |-> rank]

RECURSIVE ReplaceNL(_)
\* snippet.replace('\n', ' ')
ReplaceNL(s) ==
    IF s = <<>> THEN <<>>
    ELSE <<IF Head(s) = NL THEN SP ELSE Head(s)>> \o ReplaceNL(Tail(s))

\* query_serper.py:107-108
AnswerItem(ab) ==
    IF Truthy(ab.answer) /\ IsStr(ab.answer)
    THEN <<Item(ab.answer.v, GetOr(ab.link, <<>>), <<"Answer Box">>, 1, 0)>>
    ELSE <<>>

\* query_serper.py:109-110
AnswerSnippetItem(ab) ==
    IF Truthy(ab.snippet) /\ IsStr(ab.snippet)
    THEN <<Item(ReplaceNL(ab.snippet.v), GetOr(ab.link, <<>>), <<"Answer Box">>, 2, 0)>>
    ELSE <<>>

\* query_serper.py:101-110
AnswerBoxItems(res) ==
    IF res.answerBox.has
    THEN AnswerItem(res.answerBox) \o AnswerSnippetItem(res.answerBox)
    ELSE <<>>

\* kg.get('descriptionLink', kg.get('website', ''))
KgLink(kg) ==
    IF kg.descriptionLink.t # "none" THEN kg.descriptionLink.v
    ELSE GetOr(kg.website, <<>>)

RECURSIVE KgAttributeItems(_, _, _)
\* query_serper.py:125-126
KgAttributeItems(attrs, title, link) ==
    IF attrs = <<>> THEN <<>>
    ELSE <<Item(title \o <<SP>> \o Head(attrs)[1] \o <<":", SP>> \o Head(attrs)[2] \o <<".">>,
                link, title, 5, 0)>>
         \o KgAttributeItems(Tail(attrs), title, link)

\* query_serper.py:112-126
KnowledgeGraphItems(res) ==
    IF ~res.knowledgeGraph.has THEN <<>>
    ELSE LET kg == res.knowledgeGraph
             title == GetOr(kg.title, <<>>)
             link == KgLink(kg)
         IN  (IF Truthy(kg.type)
              THEN <<Item(title \o <<":", SP>> \o kg.type.v \o <<".">>, link,
                          <<"Knowledge Graph">>, 3, 0)>>
              ELSE <<>>)
             \o (IF Truthy(kg.description)
                 THEN <<Item(kg.description.v, link, title, 4, 0)>>
                 ELSE <<>>)
             \o KgAttributeItems(kg.attributes, title, link)

RECURSIVE ResultAttributeItems(_, _, _, _)
\* query_serper.py:138-139
ResultAttributeItems(attrs, title, link, rank) ==
    IF attrs = <<>> THEN <<>>
    ELSE <<Item(Head(attrs)[1] \o <<":", SP>> \o Head(attrs)[2] \o <<".">>,
                link, title, 7, rank)>>
         \o ResultAttributeItems(Tail(attrs), title, link, rank)

\* query_serper.py:132-139, for the result at position rank
ResultItems(result, rank) ==
    LET title == GetOr(result.title, <<"Search Result">>)
        link == GetOr(result.link, <<>>)
    IN  (IF result.hasSnippet
         THEN <<Item(result.snippet, link, title, 6, rank)>>
         ELSE <<>>)
        \o ResultAttributeItems(result.attributes, title, link, rank)

\* results[result_key][:self.k], for self.k >= 0
TakeAll(list, n) == list
Take(list, n) == SubSeq(list, 1, Min(n, Len(list)))

RECURSIVE RankedFrom(_, _)
RankedFrom(list, rank) ==
    IF rank > Len(list) THEN <<>>
    ELSE ResultItems(list[rank], rank) \o RankedFrom(list, rank + 1)

\* query_serper.py:128-139
RankedItems(res, topk) ==
    IF res.organic.has THEN RankedFrom(Take(res.organic.list, topk), 1) ELSE <<>>

NoResultItems == <<Item(NO_RESULT_MSG, <<>>, <<"No Result">>, 0, 0)>>

SectionsKgFirst(res, topk) ==
    KnowledgeGraphItems(res) \o AnswerBoxItems(res) \o RankedItems(res, topk)

\* the three sections in the order the code runs them
Sections(res, topk) ==
    AnswerBoxItems(res) \o KnowledgeGraphItems(res) \o RankedItems(res, topk)

ParseWithoutPlaceholder(res, topk) == Sections(res, topk)

\* SerperAPI._parse_snippets_with_links
_parse_snippets_with_links(res, topk) ==
    LET its == Sections(res, topk)
    IN  IF its = <<>> THEN NoResultItems ELSE its

FormatNoSpace(item) ==
    IF item.link # <<>>
    THEN item.snippet \o <<SOURCE_OPEN>> \o item.link \o <<RBRACKET>>
    ELSE item.snippet

\* query_serper.py:156-159
Format(item) ==
    IF item.link # <<>>
    THEN item.snippet \o <<SP, SOURCE_OPEN>> \o item.link \o <<RBRACKET>>
    ELSE item.snippet

RECURSIVE JoinSpace(_)
\* ' '.join(formatted)
JoinSpace(parts) ==
    IF parts = <<>> THEN <<>>
    ELSE IF Len(parts) = 1 THEN parts[1]
    ELSE parts[1] \o <<SP>> \o JoinSpace(Tail(parts))

\* SerperAPI._parse_results
_parse_results(res, topk) ==
    LET its == _parse_snippets_with_links(res, topk)
    IN  JoinSpace([i \in 1..Len(its) |-> Format(its[i])])

(***************************************************************************)
(* The citation scan of the web app (app.py:232-247).                      *)
(* source_pattern = r'\[Source: (https?://[^\]]+)\]'                      *)
(***************************************************************************)
RECURSIVE FirstRBracket(_, _)
\* the first position >= i of t holding ']', or 0
FirstRBracket(t, i) ==
    IF i > Len(t) THEN 0
    ELSE IF t[i] = RBRACKET THEN i
    ELSE FirstRBracket(t, i + 1)

\* the position of the ']' that ends a match of source_pattern starting at
\* position i of t, or 0 when the pattern does not match there
MatchEnd(t, i) ==
    IF i + 1 <= Len(t) /\ t[i] = SOURCE_OPEN /\ t[i + 1] \in Schemes
    THEN LET e == FirstRBracket(t, i + 2)
         IN  IF e >= i + 3 THEN e ELSE 0
    ELSE 0

RECURSIVE FindAllFrom(_, _)
FindAllFrom(t, i) ==
    IF i > Len(t) THEN <<>>
    ELSE LET e == MatchEnd(t, i)
         IN  IF e > 0 THEN <<SubSeq(t, i + 1, e - 1)>> \o FindAllFrom(t, e + 1)
             ELSE FindAllFrom(t, i + 1)

\* re.findall(source_pattern, result_text)
FindAll(t) == FindAllFrom(t, 1)

RECURSIVE SubFrom(_, _)
SubFrom(t, i) ==
    IF i > Len(t) THEN <<>>
    ELSE LET e == MatchEnd(t, i)
         IN  IF e > 0 THEN SubFrom(t, e + 1)
             ELSE <<t[i]>> \o SubFrom(t, i + 1)

\* re.sub(source_pattern, '', result_text)
Sub(t) == SubFrom(t, 1)

IsSpace(c) == c \in {SP, NL}

RECURSIVE LStrip(_)
LStrip(t) == IF t # <<>> /\ IsSpace(Head(t)) THEN LStrip(Tail(t)) ELSE t

RECURSIVE RStrip(_)
RStrip(t) ==
    IF t # <<>> /\ IsSpace(t[Len(t)]) THEN RStrip(SubSeq(t, 1, Len(t) - 1)) ELSE t

\* str.strip()
Strip(t) == RStrip(LStrip(t))

\* set(sources)
SeqToSet(q) == {q[i] : i \in 1..Len(q)}

(***************************************************************************)
(* Backend responses the model draws from.                                 *)
(***************************************************************************)
MaxResults == 2
MaxK == 2

L_X == <<"https://", "x">>
L_Y == <<"http://", "y.org">>
\* a URL with an IPv6 literal host: http://[::1]/p
L_V6 == <<"http://", "[::1", RBRACKET, "/p">>

NoAnswerBox == [has |-> FALSE, answer |-> None, snippet |-> None, link |-> None]

AnswerBoxes ==
    {NoAnswerBox} \cup
    [has : {TRUE},
     answer : {None, Str(<<"Paris">>), Num(<<"42">>)},
     snippet : {None, Str(<<"Paris">>), Str(<<"in", NL, "France">>)},
     link : {None, Str(L_X)}]

NoKnowledgeGraph ==
    [has |-> FALSE, title |-> None, type |-> None, description |-> None,
     descriptionLink |-> None, website |-> None, attributes |-> <<>>]

KgAttrs == << <<<<"Height">>, <<"330 m">>>>, <<<<"Opened">>, <<"1889">>>> >>

KnowledgeGraphs ==
    {NoKnowledgeGraph,
     [has |-> TRUE, title |-> None, type |-> Str(<<"Tower">>), description |-> None,
      descriptionLink |-> None, website |-> None, attributes |-> KgAttrs]} \cup
    {[has |-> TRUE, title |-> Str(<<"Eiffel Tower">>), type |-> ty, description |-> de,
      descriptionLink |-> ln[1], website |-> ln[2], attributes |-> at] :
        ty \in {None, Str(<<"Tower">>)},
        de \in {None, Str(<<"Landmark of Paris">>)},
        ln \in {<<None, None>>, <<Str(L_Y), Str(L_X)>>, <<None, Str(L_X)>>},
        at \in {<<>>, KgAttrs}}

RankedResults ==
    {[title |-> Str(<<"Wiki">>), link |-> Str(L_X), hasSnippet |-> TRUE,
      snippet |-> <<"Paris is the capital">>, attributes |-> <<>>],
     [title |-> None, link |-> Str(L_Y), hasSnippet |-> TRUE,
      snippet |-> <<"A wrought-iron tower">>,
      attributes |-> << <<<<"Floors">>, <<"3">>>>, <<<<"Architect">>, <<"Sauvestre">>>> >>],
     [title |-> Str(<<"Local">>), link |-> Str(L_V6), hasSnippet |-> FALSE,
      snippet |-> <<>>, attributes |-> << <<<<"Port">>, <<"80">>>> >>]}

RankedLists == UNION {[1..n -> RankedResults] : n \in 0..MaxResults}

Organics ==
    {[has |-> FALSE, list |-> <<>>]} \cup [has : {TRUE}, list : RankedLists]

Responses == [answerBox : AnswerBoxes, knowledgeGraph : KnowledgeGraphs, organic : Organics]

EmptyResponse ==
    [answerBox |-> NoAnswerBox, knowledgeGraph |-> NoKnowledgeGraph,
     organic |-> [has |-> FALSE, list |-> <<>>]]

NoRet == [kind |-> "none", text |-> <<>>]

SearchIdle ==
    /\ spc = "idle" /\ query = "" /\ max_retries = 0 /\ response = "none"
    /\ num_fails = 0 /\ sleep_time = 0 /\ attempts = 0 /\ num_bad = 0
    /\ slept = <<>> /\ ret = NoRet

ParseIdle ==
    /\ results = EmptyResponse /\ items = <<>> /\ text = <<>>
    /\ sources = <<>> /\ clean_text = <<>> /\ ppc = "start"

NoUsage == [input_tokens |-> 0, output_tokens |-> 0]

\* verify has not returned
NotReturned == [done |-> FALSE, verdict |-> "none", batches |-> <<>>, usage |-> NoUsage]

RunIdle ==
    /\ status = "IDLE" /\ budget = 0 /\ llm_calls = 0 /\ usage = NoUsage
    /\ batches = <<>> /\ verdict = "none" /\ reprompt = FALSE /\ pending = ""
    /\ returned = NotReturned
    /\ calls = <<>> /\ searches = <<>>

NoDecision == [kind |-> "none", answer |-> "none", query |-> ""]

DecideIdle == reply_text = <<>> /\ decision = NoDecision /\ dpc = "idle"

BatchIdle ==
    /\ bpc = "idle" /\ processed = 0 /\ failed_cnt = 0 /\ total_usage = NoUsage
    /\ written = <<>> /\ outcomes = <<>>

RunIds == {"r1", "r2"}

\* the Run State of a run that starts with budget b
NewRun(b) ==
    [budget |-> b, status |-> "AWAITING_DECISION", llm_calls |-> 0, usage |-> NoUsage,
     batches |-> <<>>, verdict |-> "none", reprompt |-> FALSE, pending |-> "",
     returned |-> NotReturned]

NoCalls == [usage |-> NoUsage, batches |-> <<>>]

MultiIdle ==
    /\ runs = [r \in RunIds |-> [NewRun(0) EXCEPT !.status = "IDLE"]]
    /\ own = [r \in RunIds |-> NoCalls]

\* st.session_state.model is None
NoModel == [built |-> FALSE, model_id |-> "", temperature |-> 0, max_tokens |-> 0]

AppIdle ==
    /\ session_model = NoModel /\ model_option = "" /\ temperature = 0 /\ max_tokens = 0
    /\ history = <<>> /\ submissions = <<>>

OtherIdle == DecideIdle /\ BatchIdle /\ MultiIdle /\ AppIdle

(***************************************************************************)
(* The search client: SerperAPI.run and _google_serper_api_results.        *)
(* Delays are in tenths of a second.                                       *)
(***************************************************************************)
DEFAULT_MAX_RETRIES == 3
SLEEP_CAP == 100
UNIFORM_LO == 10
UNIFORM_HI == 30
\* values random.uniform(1, 3) can return
UniformSamples == {UNIFORM_LO, 13, 25, UNIFORM_HI}

MaxRetriesBound == 4
\* requests counted per call; the count stays at this value once reached
MaxAttempts == MaxRetriesBound + 2
Inc(n) == IF n < MaxAttempts THEN n + 1 ELSE n

Queries == {"q1", "q2"}

\* the JSON bodies a successful request can carry in SearchSpec and Spec
SearchResponses ==
    {EmptyResponse,
     [EmptyResponse EXCEPT !.answerBox =
        [has |-> TRUE, answer |-> Str(<<"Paris">>), snippet |-> None, link |-> Str(L_X)]],
     [EmptyResponse EXCEPT !.organic =
        [has |-> TRUE,
         list |-> <<[title |-> Str(<<"Wiki">>), link |-> Str(L_Y), hasSnippet |-> TRUE,
                     snippet |-> <<"Paris is the capital">>, attributes |-> <<>>]>>]]}

\* bool(response): None is false, and requests.Response is true exactly when
\* its status is below 400
ResponseTruthy(resp) == resp = "ok"

LoopConditionOffByOne(resp, nf, mr) == ~ResponseTruthy(resp) /\ nf <= mr

\* query_serper.py:73  while not response and num_fails < max_retries
LoopCondition(resp, nf, mr) == ~ResponseTruthy(resp) /\ nf < mr

NextSleepNoCap(s, u) == IF s = 0 THEN u ELSE s * 2

\* query_serper.py:86-87
NextSleep(s, u) ==
    LET doubled == Min(s * 2, SLEEP_CAP)
    IN  IF doubled = 0 THEN u ELSE doubled

RunCallNoAssert(q, mr) ==
    /\ query' = q
    /\ max_retries' = mr
    /\ response' = "none" /\ num_fails' = 0 /\ sleep_time' = 0
    /\ attempts' = 0 /\ num_bad' = 0 /\ slept' = <<>>
    /\ spc' = "loop" /\ ret' = NoRet

\* SerperAPI.run up to the first request, called with search_term q and
\* max_retries mr (query_serper.py:40, 69)
RunCall(q, mr) ==
    /\ query' = q
    /\ max_retries' = mr
    /\ response' = "none" /\ num_fails' = 0 /\ sleep_time' = 0
    /\ attempts' = 0 /\ num_bad' = 0 /\ slept' = <<>>
    /\ IF serper_api_key = ""
       THEN spc' = "done" /\ ret' = [kind |-> "AssertionError", text |-> <<>>]
       ELSE spc' = "loop" /\ ret' = NoRet

\* the loop body is entered and requests.post is called (query_serper.py:73-78)
Post ==
    /\ spc = "loop"
    /\ LoopCondition(response, num_fails, max_retries)
    /\ spc' = "posting"
    /\ attempts' = Inc(attempts)
    /\ UNCHANGED <<query, max_retries, response, num_fails, sleep_time, num_bad, slept, ret>>
    /\ UNCHANGED <<otherVars, clientVars, parseVars, runVars>>

\* requests.post answers with a status below 400 (query_serper.py:75-79)
PostOk ==
    /\ spc = "posting"
    /\ response' = "ok"
    /\ spc' = "loop"
    /\ UNCHANGED <<query, max_retries, num_fails, sleep_time, attempts, num_bad, slept, ret>>
    /\ UNCHANGED <<otherVars, clientVars, parseVars, runVars>>

\* requests.post answers with a status of 400 or more, a rate limit included:
\* no exception is raised, so nothing is counted and nothing is slept
PostBadStatus ==
    /\ spc = "posting"
    /\ response' = "bad"
    /\ num_bad' = Inc(num_bad)
    /\ spc' = "loop"
    /\ UNCHANGED <<query, max_retries, num_fails, sleep_time, attempts, slept, ret>>
    /\ UNCHANGED <<otherVars, clientVars, parseVars, runVars>>

\* requests.post raises a timeout or network error (query_serper.py:82-88)
PostException ==
    /\ spc = "posting"
    /\ \E u \in UniformSamples :
         /\ sleep_time' = NextSleep(sleep_time, u)
         /\ slept' = Append(slept, NextSleep(sleep_time, u))
    /\ response' = "none"
    /\ num_fails' = num_fails + 1
    /\ spc' = "loop"
    /\ UNCHANGED <<query, max_retries, attempts, num_bad, ret>>
    /\ UNCHANGED <<otherVars, clientVars, parseVars, runVars>>

\* requests.post raises AssertionError, which is re-raised (query_serper.py:80-81)
PostAssertionError ==
    /\ spc = "posting"
    /\ spc' = "done"
    /\ ret' = [kind |-> "AssertionError", text |-> <<>>]
    /\ UNCHANGED <<query, max_retries, response, num_fails, sleep_time, attempts,
                   num_bad, slept>>
    /\ UNCHANGED <<otherVars, clientVars, parseVars, runVars>>

ExhaustedRetSilent == [kind |-> "value", text |-> <<>>]

\* query_serper.py:90-91  raise ValueError(...)
ExhaustedRet == [kind |-> "ValueError", text |-> <<>>]

\* the loop is left (query_serper.py:90-95) and run() parses the body
\* (query_serper.py:51)
LoopExit ==
    /\ spc = "loop"
    /\ ~LoopCondition(response, num_fails, max_retries)
    /\ spc' = "done"
    /\ IF ~ResponseTruthy(response)
       THEN /\ ret' = ExhaustedRet
            /\ UNCHANGED parseVars
       ELSE \/ /\ ret' = [kind |-> "JSONDecodeError", text |-> <<>>]
               /\ UNCHANGED parseVars
            \/ \E body \in SearchResponses :
                 /\ results' = body
                 /\ items' = _parse_snippets_with_links(body, k)
                 /\ text' = _parse_results(body, k)
                 /\ ret' = [kind |-> "value", text |-> _parse_results(body, k)]
                 /\ ppc' = "parsed"
                 /\ UNCHANGED <<sources, clean_text>>
    /\ UNCHANGED <<query, max_retries, response, num_fails, sleep_time, attempts,
                   num_bad, slept>>
    /\ UNCHANGED <<otherVars, clientVars, runVars>>

SearchStep == Post \/ PostOk \/ PostBadStatus \/ PostException \/ PostAssertionError \/ LoopExit

(***************************************************************************)
(* SearchSpec: a caller makes search calls on one SerperAPI object.        *)
(***************************************************************************)
SearchInit ==
    /\ OtherIdle
    /\ serper_api_key \in {"", "key"}
    /\ k \in 0..MaxK
    /\ SearchIdle
    /\ ParseIdle
    /\ RunIdle

\* a caller invokes run(query, max_retries=mr)
CallRun ==
    /\ spc \in {"idle", "done"}
    /\ \E q \in Queries, mr \in 0..MaxRetriesBound : RunCall(q, mr)
    /\ UNCHANGED <<otherVars, clientVars, parseVars, runVars>>

SearchNext == CallRun \/ SearchStep

SearchSpec == SearchInit /\ [][SearchNext]_vars

(***************************************************************************)
(* Spec: one run of verify(claim, model_config).  The run's loop, the      *)
(* decision grammar and the iteration budget follow sections 4.1 and 4.2   *)
(* of the specification; the search calls it makes are the SerperAPI.run   *)
(* calls modelled above, with the default max_retries.                     *)
(***************************************************************************)
MaxBudget == 3

\* token usage one LLM call can report
Usages == {[input_tokens |-> 1, output_tokens |-> 1], [input_tokens |-> 2, output_tokens |-> 3]}

\* an LLM reply: the finalize marker it holds, the query of the search marker
\* it holds, and the usage of the call
Replies == [answer : {"none", "TRUE", "FALSE"}, search : {"none"} \cup Queries, usage : Usages]

DecideSearchFirst(reply) ==
    IF reply.search # "none" THEN [kind |-> "SEARCH", answer |-> "none", query |-> reply.search]
    ELSE IF reply.answer # "none" THEN [kind |-> "FINALIZE", answer |-> reply.answer, query |-> ""]
    ELSE [kind |-> "UNPARSEABLE", answer |-> "none", query |-> ""]

\* section 4.2: a finalize marker takes precedence over a search marker
Decide(reply) ==
    IF reply.answer # "none" THEN [kind |-> "FINALIZE", answer |-> reply.answer, query |-> ""]
    ELSE IF reply.search # "none" THEN [kind |-> "SEARCH", answer |-> "none", query |-> reply.search]
    ELSE [kind |-> "UNPARSEABLE", answer |-> "none", query |-> ""]

AddUsageInputOnly(a, b) ==
    [input_tokens |-> a.input_tokens + b.input_tokens, output_tokens |-> a.output_tokens]

AddUsage(a, b) ==
    [input_tokens |-> a.input_tokens + b.input_tokens,
     output_tokens |-> a.output_tokens + b.output_tokens]

Returned(v, b, u) == [done |-> TRUE, verdict |-> v, batches |-> b, usage |-> u]

RunInit ==
    /\ OtherIdle
    /\ serper_api_key \in {"", "key"}
    /\ k = 1
    /\ SearchIdle
    /\ ParseIdle
    /\ status = "AWAITING_DECISION"
    /\ budget \in 1..MaxBudget
    /\ llm_calls = 0 /\ usage = NoUsage /\ batches = <<>> /\ verdict = "none"
    /\ reprompt = FALSE /\ pending = "" /\ returned = NotReturned
    /\ calls = <<>> /\ searches = <<>>

RepromptAlways(forced) == ~forced

\* an unparseable reply is answered by the corrective re-prompt unless it is
\* the reply to that re-prompt or to the forced-finalization call
RepromptAllowed(forced) == ~forced /\ ~reprompt

\* the handling of the reply of one LLM call.  The call that uses up the
\* budget is the forced-finalization call.
HandleReply(reply) ==
         LET d == Decide(reply)
             forced == llm_calls + 1 >= budget
             u == AddUsage(usage, reply.usage)
         IN  /\ llm_calls' = llm_calls + 1
             /\ usage' = u
             /\ calls' = Append(calls, [usage |-> reply.usage, kind |-> d.kind,
                                        query |-> d.query, corrective |-> reprompt,
                                        forced |-> forced])
             /\ IF d.kind = "FINALIZE"
                THEN /\ status' = "DONE"
                     /\ verdict' = d.answer
                     /\ returned' = Returned(d.answer, batches, u)
                     /\ reprompt' = FALSE
                     /\ UNCHANGED pending
                ELSE IF d.kind = "SEARCH" /\ ~forced
                THEN /\ status' = "SEARCHING"
                     /\ pending' = d.query
                     /\ reprompt' = FALSE
                     /\ UNCHANGED <<verdict, returned>>
                ELSE IF d.kind = "UNPARSEABLE" /\ RepromptAllowed(forced)
                THEN /\ reprompt' = TRUE
                     /\ UNCHANGED <<status, pending, verdict, returned>>
                ELSE /\ status' = "FAILED"
                     /\ returned' = Returned("none", batches, u)
                     /\ UNCHANGED <<verdict, reprompt, pending>>

LLMCallAfterEnd ==
    /\ status \in {"AWAITING_DECISION", "DONE", "FAILED"}
    /\ \E reply \in Replies : HandleReply(reply)
    /\ UNCHANGED <<otherVars, clientVars, searchVars, parseVars, budget, batches, searches>>

\* AWAITING_DECISION: one LLM call and the handling of its reply
LLMCall ==
    /\ status = "AWAITING_DECISION"
    /\ \E reply \in Replies : HandleReply(reply)
    /\ UNCHANGED <<otherVars, clientVars, searchVars, parseVars, budget, batches, searches>>

\* SEARCHING: the search client is called with the directive's query
StartSearch ==
    /\ status = "SEARCHING"
    /\ spc = "idle"
    /\ RunCall(pending, DEFAULT_MAX_RETRIES)
    /\ UNCHANGED <<otherVars, clientVars, parseVars, runVars>>

ReplaceBatches(bs, q, r) == <<[query |-> q, result |-> r]>>

\* the Search Batch of a search call is added at the end of the batches
AppendBatch(bs, q, r) == Append(bs, [query |-> q, result |-> r])

\* SEARCHING: the search call has ended; a result is appended as a Search
\* Batch, any failure ends the run in FAILED with what was accumulated
SearchReturn ==
    /\ status = "SEARCHING"
    /\ spc = "done"
    /\ searches' = Append(searches, [query |-> query, kind |-> ret.kind])
    /\ IF ret.kind = "value"
       THEN /\ batches' = AppendBatch(batches, query, ret.text)
            /\ status' = "AWAITING_DECISION"
            /\ spc' = "idle" /\ query' = "" /\ max_retries' = 0 /\ response' = "none"
            /\ num_fails' = 0 /\ sleep_time' = 0 /\ attempts' = 0 /\ num_bad' = 0
            /\ slept' = <<>> /\ ret' = NoRet
            /\ results' = EmptyResponse /\ items' = <<>> /\ text' = <<>>
            /\ ppc' = "start"
            /\ UNCHANGED <<returned, sources, clean_text>>
       ELSE /\ status' = "FAILED"
            /\ returned' = Returned("none", batches, usage)
            /\ UNCHANGED <<batches, searchVars, parseVars>>
    /\ UNCHANGED <<otherVars, clientVars, budget, llm_calls, usage, verdict, reprompt, pending, calls>>

Next == LLMCall \/ StartSearch \/ SearchStep \/ SearchReturn

Spec == RunInit /\ [][Next]_vars

\* the run is one sequential program: whenever it can take a step it does
FairSpec == Spec /\ WF_vars(Next)

(***************************************************************************)
(* DecideSpec: the decision grammar of section 4.2 applied to one reply.   *)
(* A reply is a sequence of tokens; a marker is one token, in any case.    *)
(***************************************************************************)
MaxReplyLen == 3

ReplyTokens == {"ANSWER: TRUE", "answer: true", "Answer: False", "SEARCH:", "search:",
                "q1", "q2", NL, "so"}

RECURSIVE SeqsUpTo(_, _)
SeqsUpTo(S, n) ==
    IF n = 0 THEN {<<>>}
    ELSE LET shorter == SeqsUpTo(S, n - 1)
         IN  shorter \cup {Append(t, x) : t \in shorter, x \in S}

ReplyTexts == SeqsUpTo(ReplyTokens, MaxReplyLen)

\* case folding of a token
Lower(t) ==
    CASE t = "ANSWER: TRUE" -> "answer: true"
      [] t = "Answer: False" -> "answer: false"
      [] t = "SEARCH:" -> "search:"
      [] OTHER -> t

\* the answer of the first finalize marker of the reply, "none" without one
RECURSIVE AnswerOf(_)
AnswerOf(t) ==
    IF t = <<>> THEN "none"
    ELSE IF Lower(Head(t)) = "answer: true" THEN "TRUE"
    ELSE IF Lower(Head(t)) = "answer: false" THEN "FALSE"
    ELSE AnswerOf(Tail(t))

\* the query after the first search marker of the reply: what follows the
\* marker on its line; "none" without a search marker
RECURSIVE QueryOf(_)
QueryOf(t) ==
    IF t = <<>> THEN "none"
    ELSE IF Lower(Head(t)) = "search:"
         THEN IF Len(t) >= 2 /\ t[2] # NL THEN t[2] ELSE ""
    ELSE QueryOf(Tail(t))

\* the markers a reply holds
Markers(t) == [answer |-> AnswerOf(t), search |-> QueryOf(t), usage |-> NoUsage]

ParseReply(t) == Decide(Markers(t))

DecideInit ==
    /\ serper_api_key = "key" /\ k = 1
    /\ SearchIdle /\ ParseIdle /\ RunIdle
    /\ BatchIdle /\ MultiIdle /\ AppIdle
    /\ reply_text \in ReplyTexts
    /\ decision = NoDecision
    /\ dpc = "start"

DoDecide ==
    /\ dpc = "start"
    /\ decision' = ParseReply(reply_text)
    /\ dpc' = "decided"
    /\ UNCHANGED <<clientVars, searchVars, parseVars, runVars, batchVars, multiVars, appVars,
                   reply_text>>

DecideSpec == DecideInit /\ [][DoDecide]_vars

(***************************************************************************)
(* BatchSpec: the evaluation loop of test_gemini.py over the first         *)
(* num_samples claims.  verify_atomic_claim is one step of the loop; what  *)
(* it returns is drawn from the triples a run can hand back.               *)
(***************************************************************************)
num_samples == 3

\* usage is None
NoneUsage == [none |-> TRUE]
IsNoneUsage(u) == "none" \in DOMAIN u

\* (result, searches, usage) as returned by verify_atomic_claim
VerifyOutcomes ==
    [verdict : {"none", "TRUE", "FALSE"},
     batches : {<<>>, <<[query |-> "q1", result |-> NO_RESULT_MSG]>>},
     usage : Usages \cup {NoUsage, NoneUsage}]

TotalUsageIfVerdict(total, o) ==
    IF IsNoneUsage(o.usage) \/ o.verdict = "none" THEN total ELSE AddUsage(total, o.usage)

\* test_gemini.py:65-67
TotalUsageAfter(total, o) ==
    IF IsNoneUsage(o.usage) THEN total ELSE AddUsage(total, o.usage)

\* test_gemini.py:33-51
BatchInit ==
    /\ serper_api_key = "key" /\ k = 1
    /\ SearchIdle /\ ParseIdle /\ RunIdle /\ DecideIdle /\ MultiIdle /\ AppIdle
    /\ bpc = "loop" /\ processed = 0 /\ failed_cnt = 0 /\ total_usage = NoUsage
    /\ written = <<>> /\ outcomes = <<>>

\* one iteration of the loop, test_gemini.py:53-87
ProcessClaim ==
    /\ bpc = "loop"
    /\ processed < num_samples
    /\ \E o \in VerifyOutcomes :
         /\ outcomes' = Append(outcomes, o)
         /\ total_usage' = TotalUsageAfter(total_usage, o)
         /\ IF o.verdict = "none"
            THEN /\ failed_cnt' = failed_cnt + 1
                 /\ UNCHANGED written
            ELSE /\ written' = Append(written, [claim |-> processed + 1,
                                                result |-> o.verdict,
                                                searches |-> o.batches])
                 /\ UNCHANGED failed_cnt
    /\ processed' = processed + 1
    /\ UNCHANGED <<clientVars, searchVars, parseVars, runVars, decideVars, multiVars, appVars,
                   bpc>>

\* the loop is over and the summary is printed, test_gemini.py:89-101
Summary ==
    /\ bpc = "loop"
    /\ processed = num_samples
    /\ bpc' = "summary"
    /\ UNCHANGED <<clientVars, searchVars, parseVars, runVars, decideVars, multiVars, appVars,
                   processed, failed_cnt, total_usage, written, outcomes>>

BatchNext == ProcessClaim \/ Summary

BatchSpec == BatchInit /\ [][BatchNext]_vars

(***************************************************************************)
(* MultiSpec: several runs of section 4.1 side by side, their steps         *)
(* interleaved in any order.  A search call is one step of its run.         *)
(***************************************************************************)
MultiBudgets == 1..(MaxBudget - 1)

\* how the search call for query q can end, as a run sees it
SearchEnds(q) ==
    {[kind |-> "value", text |-> <<"about", q>>], [kind |-> "ValueError", text |-> <<>>]}

UsageOfAllRuns(r) == AddUsage(runs["r1"].usage, runs["r2"].usage)

\* the cumulative Usage a run adds to is its own
UsageSoFar(r) == runs[r].usage

MultiInit ==
    /\ serper_api_key = "key" /\ k = 1
    /\ SearchIdle /\ ParseIdle /\ RunIdle /\ DecideIdle /\ BatchIdle /\ AppIdle
    /\ runs \in [RunIds -> {NewRun(b) : b \in MultiBudgets}]
    /\ own = [r \in RunIds |-> NoCalls]

\* AWAITING_DECISION of run r: HandleReply on the Run State of r
MultiLLMCall(r) ==
    /\ runs[r].status = "AWAITING_DECISION"
    /\ \E reply \in Replies :
         LET st == runs[r]
             d == Decide(reply)
             forced == st.llm_calls + 1 >= st.budget
             u == AddUsage(UsageSoFar(r), reply.usage)
             called == [st EXCEPT !.llm_calls = @ + 1, !.usage = u]
             after ==
                IF d.kind = "FINALIZE"
                THEN [called EXCEPT !.status = "DONE", !.verdict = d.answer,
                                    !.returned = Returned(d.answer, st.batches, u),
                                    !.reprompt = FALSE]
                ELSE IF d.kind = "SEARCH" /\ ~forced
                THEN [called EXCEPT !.status = "SEARCHING", !.pending = d.query,
                                    !.reprompt = FALSE]
                ELSE IF d.kind = "UNPARSEABLE" /\ ~forced /\ ~st.reprompt
                THEN [called EXCEPT !.reprompt = TRUE]
                ELSE [called EXCEPT !.status = "FAILED",
                                    !.returned = Returned("none", st.batches, u)]
         IN  /\ runs' = [runs EXCEPT ![r] = after]
             /\ own' = [own EXCEPT ![r].usage = AddUsage(@, reply.usage)]
    /\ UNCHANGED <<clientVars, searchVars, parseVars, runVars, decideVars, batchVars, appVars>>

\* SEARCHING of run r: StartSearch to SearchReturn in one step
MultiSearch(r) ==
    /\ runs[r].status = "SEARCHING"
    /\ \E e \in SearchEnds(runs[r].pending) :
         LET st == runs[r]
             b == [query |-> st.pending, result |-> e.text]
         IN  IF e.kind = "value"
             THEN /\ runs' = [runs EXCEPT ![r] =
                                [st EXCEPT !.batches = AppendBatch(@, b.query, b.result),
                                           !.status = "AWAITING_DECISION"]]
                  /\ own' = [own EXCEPT ![r].batches = Append(@, b)]
             ELSE /\ runs' = [runs EXCEPT ![r] =
                                [st EXCEPT !.status = "FAILED",
                                           !.returned = Returned("none", st.batches, st.usage)]]
                  /\ UNCHANGED own
    /\ UNCHANGED <<clientVars, searchVars, parseVars, runVars, decideVars, batchVars, appVars>>

MultiNext == \E r \in RunIds : MultiLLMCall(r) \/ MultiSearch(r)

MultiSpec == MultiInit /\ [][MultiNext]_vars

(***************************************************************************)
(* AppSpec: one session of the interactive app.  Every change of a sidebar *)
(* widget and every press of the submit button reruns the script.          *)
(***************************************************************************)
MaxSubmissions == 3

ModelOptions == {"gemini-2.5-flash-lite", "gemini-2.5-flash"}
Temperatures == {5, 7}
MaxTokens == {2048, 4096}

\* the claim_input of a submission: blank, or a claim
ClaimInputs == {<<SP>>, <<"claim">>}

\* what verify_atomic_claim does for the app: a result, None, or an exception
VerifyEnds == {"TRUE", "none", "raise"}

\* model_name = f"google:{model_option}"
ModelName(option) == <<"google", ":", option>>

\* Model(model_name, temperature, max_tokens): the identifier of the model is
\* what follows the organization prefix of its name
Model(model_name, temp, tokens) ==
    [built |-> TRUE, model_id |-> model_name[Len(model_name)],
     temperature |-> temp, max_tokens |-> tokens]

NeedsModelOnAnyChange(cached, option, temp, tokens) ==
    \/ ~cached.built
    \/ cached.model_id # option
    \/ cached.temperature # temp
    \/ cached.max_tokens # tokens

\* app.py:145
NeedsModel(cached, option, temp, tokens) == ~cached.built \/ cached.model_id # option

\* a new session: app.py:85-89 and the defaults of the sidebar widgets
AppInit ==
    /\ serper_api_key = "key" /\ k = 1
    /\ SearchIdle /\ ParseIdle /\ RunIdle /\ DecideIdle /\ BatchIdle /\ MultiIdle
    /\ session_model = NoModel
    /\ history = <<>>
    /\ model_option = "gemini-2.5-flash-lite" /\ temperature = 5 /\ max_tokens = 2048
    /\ submissions = <<>>

\* the user moves a sidebar widget; the rerun has submit_button False
SelectModel ==
    /\ \E o \in ModelOptions \ {model_option} : model_option' = o
    /\ UNCHANGED <<clientVars, searchVars, parseVars, runVars, decideVars, batchVars,
                   multiVars, session_model, temperature, max_tokens, history, submissions>>

SlideTemperature ==
    /\ \E t \in Temperatures \ {temperature} : temperature' = t
    /\ UNCHANGED <<clientVars, searchVars, parseVars, runVars, decideVars, batchVars,
                   multiVars, session_model, model_option, max_tokens, history, submissions>>

SlideMaxTokens ==
    /\ \E m \in MaxTokens \ {max_tokens} : max_tokens' = m
    /\ UNCHANGED <<clientVars, searchVars, parseVars, runVars, decideVars, batchVars,
                   multiVars, session_model, model_option, temperature, history, submissions>>

\* the user presses the submit button: app.py:138-270
Submit ==
    /\ Len(submissions) < MaxSubmissions
    /\ \E claim_input \in ClaimInputs, end \in VerifyEnds :
         IF Strip(claim_input) = <<>>
         THEN UNCHANGED <<session_model, history, submissions>>
         ELSE LET used == IF NeedsModel(session_model, model_option, temperature, max_tokens)
                          THEN Model(ModelName(model_option), temperature, max_tokens)
                          ELSE session_model
              IN  /\ session_model' = used
                  /\ history' = IF end \notin {"none", "raise"}
                                THEN Append(history, [claim |-> Strip(claim_input),
                                                      result |-> end])
                                ELSE history
                  /\ submissions' = Append(submissions,
                        [before |-> session_model,
                         selected |-> [model_id |-> model_option,
                                       temperature |-> temperature,
                                       max_tokens |-> max_tokens],
                         used |-> used])
    /\ UNCHANGED <<clientVars, searchVars, parseVars, runVars, decideVars, batchVars,
                   multiVars, model_option, temperature, max_tokens>>

AppNext == SelectModel \/ SlideTemperature \/ SlideMaxTokens \/ Submit

AppSpec == AppInit /\ [][AppNext]_vars

(***************************************************************************)
(* ParseSpec: one backend response is parsed by _parse_results and the     *)
(* evidence text is then scanned for citations as app.py does.             *)
(***************************************************************************)
ParseInit ==
    /\ OtherIdle
    /\ serper_api_key = "key"
    /\ k \in 0..MaxK
    /\ SearchIdle
    /\ results \in Responses
    /\ items = <<>> /\ text = <<>> /\ sources = <<>> /\ clean_text = <<>>
    /\ ppc = "start"
    /\ RunIdle

\* SerperAPI._parse_results applied to the response
DoParse ==
    /\ ppc = "start"
    /\ items' = _parse_snippets_with_links(results, k)
    /\ text' = _parse_results(results, k)
    /\ ppc' = "parsed"
    /\ UNCHANGED <<otherVars, clientVars, searchVars, runVars, results, sources, clean_text>>

\* app.py:230-238
DoExtract ==
    /\ ppc = "parsed"
    /\ sources' = FindAll(text)
    /\ clean_text' = Strip(Sub(text))
    /\ ppc' = "extracted"
    /\ UNCHANGED <<otherVars, clientVars, searchVars, runVars, results, items, text>>

ParseNext == DoParse \/ DoExtract

ParseSpec == ParseInit /\ [][ParseNext]_vars

(***************************************************************************)
(* Claims about the retry loop (SearchSpec).                               *)
(***************************************************************************)
\* every request.post of the call so far was answered with a status >= 400
AllBadStatus == spc \in {"loop", "done"} /\ attempts > 0 /\ num_bad = attempts
\* every request.post of the call so far raised a timeout or network error
AllTimedOut == serper_api_key # "" /\ spc \in {"loop", "done"} /\ attempts = num_fails

\* C1: a call whose every attempt is answered with a non-success status makes
\* at most max_retries attempts, and once it ends it has failed.
C1_BadStatusBounded ==
    AllBadStatus =>
        /\ attempts <= max_retries
        /\ spc = "done" => ret.kind = "ValueError"

\* C2: a call whose every attempt times out makes exactly max_retries
\* attempts and then raises the exhaustion error; run() hands back a result
\* string only after an attempt that succeeded.
C2_ExhaustionRaises ==
    /\ AllTimedOut =>
         /\ attempts <= max_retries
         /\ spc = "loop" => ret = NoRet
         /\ spc = "done" => (attempts = max_retries /\ ret = [kind |-> "ValueError", text |-> <<>>])
    /\ ret.kind = "value" => (response = "ok" /\ attempts > num_fails)

C2_Witness ==
    /\ AllTimedOut /\ spc = "done"
    /\ max_retries = DEFAULT_MAX_RETRIES /\ attempts = DEFAULT_MAX_RETRIES
    /\ ret.kind = "ValueError"

\* C3: the first delay slept in a call lies in [1 s, 3 s], each later delay
\* is min(2 * previous delay, 10 s), and no delay exceeds 10 s; one delay is
\* slept per attempt that raised.
C3_BackoffDelays ==
    /\ Len(slept) = num_fails
    /\ Len(slept) >= 1 => (UNIFORM_LO <= slept[1] /\ slept[1] <= UNIFORM_HI)
    /\ \A i \in 2..Len(slept) : slept[i] = Min(2 * slept[i - 1], SLEEP_CAP)
    /\ \A i \in 1..Len(slept) : slept[i] <= SLEEP_CAP

C3_Witness ==
    /\ Len(slept) >= 3
    /\ slept[2] < SLEEP_CAP
    /\ 2 * slept[2] > SLEEP_CAP
    /\ slept[3] = SLEEP_CAP

\* C17: with an empty API key run() fails with the configuration failure
\* before any request: no attempt, no retry, no sleep, and no result string.
C17_MissingKeyFailsFirst ==
    (serper_api_key = "" /\ spc # "idle") =>
        /\ spc = "done"
        /\ ret = [kind |-> "AssertionError", text |-> <<>>]
        /\ attempts = 0 /\ num_fails = 0 /\ num_bad = 0 /\ slept = <<>>
        /\ response = "none"

C17_Witness ==
    /\ serper_api_key = "" /\ spc = "done" /\ query = "q2"
    /\ ret.kind = "AssertionError" /\ attempts = 0

(***************************************************************************)
(* Claims about the run (Spec, FairSpec).                                  *)
(***************************************************************************)
RunOver == status \in {"DONE", "FAILED"}

\* the search call of the run has ended with no successful response
SearchExhausted == status = "SEARCHING" /\ spc = "done" /\ ~ResponseTruthy(response)

C5_TerminatesWithinBudget ==
    /\ <>RunOver
    /\ [](llm_calls <= budget)

(***************************************************************************)
(* Claims about parsing, serialization and the citation scan (ParseSpec).  *)
(***************************************************************************)
Parsed == ppc \in {"parsed", "extracted"}

\* positions of items produced from the ranked-result list
RankedPositions == {i \in DOMAIN items : items[i].sec \in {6, 7}}
\* positions of the ranked items that are snippets
RankedSnippetPositions == {i \in DOMAIN items : items[i].sec = 6}
\* the ranked results that produced at least one item
RanksUsed == {items[i].rank : i \in RankedPositions}
\* positions of answer-box and knowledge-graph items
PanelPositions == {i \in DOMAIN items : items[i].sec \in 1..5}

\* C6 as stated: the number of items produced from the ranked-result list,
\* snippet items plus attribute items, never exceeds top_k.
C6_RankedItemsAtMostTopK ==
    Parsed => Cardinality(RankedPositions) <= k

\* C6 amended: for top_k >= 0 the items of the ranked-result list come from at
\* most top_k ranked results, the first ones, so at most top_k of them are
\* snippet items; every attribute of such a result adds one more item, and the
\* answer-box and knowledge-graph items are produced whatever top_k is.
C6_RankedResultsAtMostTopK ==
    Parsed =>
        /\ Cardinality(RanksUsed) <= k
        /\ \A r \in RanksUsed : r \in 1..k
        /\ Cardinality(RankedSnippetPositions) <= k
        /\ Cardinality(PanelPositions)
             = Len(AnswerBoxItems(results)) + Len(KnowledgeGraphItems(results))

C6_Witness ==
    /\ Parsed
    /\ k = 1
    /\ Len(results.organic.list) > k
    /\ Cardinality(RanksUsed) = k
    /\ Cardinality(RankedPositions) > k
    /\ Cardinality(PanelPositions) > k

\* the links the evidence items carry
ItemLinks == {items[i].link : i \in {j \in DOMAIN items : items[j].link # <<>>}}
\* the text holds a match of source_pattern
HasMarker(t) == \E i \in 1..Len(t) : MatchEnd(t, i) > 0

\* C7: the citation scan of a text produced by _parse_results recovers exactly
\* the distinct links of the items, and the stripped text holds no marker.
C7_CitationRoundTrip ==
    ppc = "extracted" =>
        /\ SeqToSet(sources) = ItemLinks
        /\ ~HasMarker(clean_text)

RECURSIVE Serialized(_, _)
\* the serialization as the specification words it: the first n items'
\* snippets in order, one space between items, " [Source: <link>]" right
\* after each item that carries a link
Serialized(its, n) ==
    IF n = 0 THEN <<>>
    ELSE Serialized(its, n - 1)
         \o (IF n > 1 THEN <<SP>> ELSE <<>>)
         \o its[n].snippet
         \o (IF its[n].link # <<>>
             THEN <<SP, SOURCE_OPEN>> \o its[n].link \o <<RBRACKET>>
             ELSE <<>>)

\* the links the backend supplied in any section of the response
SuppliedLinks ==
    {f.v : f \in {x \in {results.answerBox.link, results.knowledgeGraph.descriptionLink,
                         results.knowledgeGraph.website} : x.t = "str"}}
    \cup {results.organic.list[i].link.v :
            i \in {j \in DOMAIN results.organic.list : results.organic.list[j].link.t = "str"}}

ScenarioC ==
    /\ results.answerBox = [has |-> TRUE, answer |-> Str(<<"Paris">>), snippet |-> None,
                            link |-> Str(<<"https://", "x">>)]
    /\ ~results.knowledgeGraph.has
    /\ ~results.organic.has

\* C8: the evidence text is the items' snippets in extraction order joined by
\* one space, each linked item followed by " [Source: <link>]", an item
\* carries a link only if the backend supplied it, and the answer box
\* {answer: Paris, link: https://x} alone serializes to
\* "Paris [Source: https://x]".
C8_Serialization ==
    Parsed =>
        /\ text = Serialized(items, Len(items))
        /\ ItemLinks \subseteq SuppliedLinks
        /\ ScenarioC =>
             /\ Len(items) = 1
             /\ items[1].snippet = <<"Paris">>
             /\ items[1].link = <<"https://", "x">>
             /\ text = <<"Paris", " ", "[Source: ", "https://", "x", "]">>

C8_Witness ==
    /\ Parsed
    /\ Len(items) >= 3
    /\ \E i, j \in DOMAIN items : items[i].link # <<>> /\ items[j].link = <<>>

\* item i is produced no later than item j by the documented priority
Precedes(a, b) ==
    IF a.sec <= 5 \/ b.sec <= 5 THEN a.sec <= b.sec
    ELSE a.rank < b.rank \/ (a.rank = b.rank /\ a.sec <= b.sec)

\* C9: the items appear in the order answer-box answer, answer-box snippet,
\* knowledge-graph type line, description, attributes, then the ranked
\* results in rank order, each result's snippet before its attributes.
C9_ExtractionOrder ==
    Parsed =>
        /\ \A i, j \in DOMAIN items : i < j => Precedes(items[i], items[j])
        /\ \A i \in DOMAIN items :
             /\ items[i].sec = 1 => items[i].snippet = results.answerBox.answer.v
             /\ items[i].sec = 2 => items[i].snippet = ReplaceNL(results.answerBox.snippet.v)
             /\ items[i].sec = 4 => items[i].snippet = results.knowledgeGraph.description.v
             /\ items[i].sec = 6 => items[i].snippet = results.organic.list[items[i].rank].snippet
        /\ \A c \in 1..4 : Cardinality({i \in DOMAIN items : items[i].sec = c}) <= 1

C9_Witness ==
    /\ Parsed
    /\ \A c \in 1..7 : \E i \in DOMAIN items : items[i].sec = c
    /\ \E i \in DOMAIN items : items[i].rank = 2

\* positions of the items titled "Answer Box"
AnswerBoxPositions == {i \in DOMAIN items : items[i].title = <<"Answer Box">>}

\* C10: a second "Answer Box" item is produced only for a snippet that is
\* present and differs from the answer; equal answer and snippet give exactly
\* one "Answer Box" item; the emitted snippet holds no newline.
C10_SnippetOnlyIfDistinct ==
    Parsed =>
        LET ab == results.answerBox
        IN  /\ (\E i \in DOMAIN items : items[i].sec = 2) =>
                 /\ Truthy(ab.snippet)
                 /\ ab.snippet # ab.answer
            /\ (ab.has /\ Truthy(ab.answer) /\ ab.snippet = ab.answer) =>
                 Cardinality(AnswerBoxPositions) = 1
            /\ \A i \in DOMAIN items :
                 items[i].sec = 2 =>
                     /\ items[i].snippet = ReplaceNL(ab.snippet.v)
                     /\ \A n \in DOMAIN items[i].snippet : items[i].snippet[n] # NL

(***************************************************************************)
(* Claims about the history of a run (Spec).                               *)
(***************************************************************************)
\* the sum of one field of the usage of the logged calls
RECURSIVE SumField(_, _)
SumField(log, f) ==
    IF log = <<>> THEN 0 ELSE log[1].usage[f] + SumField(Tail(log), f)

UsageOfCalls ==
    [input_tokens |-> SumField(calls, "input_tokens"),
     output_tokens |-> SumField(calls, "output_tokens")]

\* C12: at every point of a run the cumulative Usage is the sum of the usage
\* of every LLM call made so far, whatever the reply was; it never decreases;
\* and the Usage returned is that sum over all the calls of the run.
C12_UsageIsSumOfCalls ==
    /\ [](/\ Len(calls) = llm_calls
          /\ usage = UsageOfCalls
          /\ returned.done => returned.usage = UsageOfCalls)
    /\ [][/\ usage'.input_tokens >= usage.input_tokens
          /\ usage'.output_tokens >= usage.output_tokens]_vars

C12_Witness ==
    /\ returned.done /\ status = "FAILED" /\ Len(calls) = 3
    /\ calls[1].kind = "UNPARSEABLE"
    /\ calls[2].corrective /\ calls[2].kind = "SEARCH"
    /\ calls[3].forced /\ calls[3].kind = "UNPARSEABLE"
    /\ returned.usage = [input_tokens |-> 4, output_tokens |-> 5]

C13_WitnessFailed ==
    /\ status = "FAILED" /\ verdict = "none" /\ returned.done /\ spc = "done"
    /\ ret.kind = "ValueError"

\* the search directives the run acted on, and the queries of the search
\* calls that returned a result
Directives == SelectSeq(calls, LAMBDA c : c.kind = "SEARCH" /\ ~c.forced)
Successful == SelectSeq(searches, LAMBDA c : c.kind = "value")

\* C14: the Search Batches only grow at the end, by one batch per successful
\* search call, with the query of the directive being served; there are as
\* many batches as successful search calls; none when the first reply
\* finalizes, one after one search directive and then a verdict.
C14_BatchesAppendOnly ==
    /\ [](/\ Len(batches) = Len(Successful)
          /\ \A i \in DOMAIN batches : batches[i].query = Successful[i].query
          /\ Len(searches) <= Len(Directives)
          /\ \A i \in DOMAIN searches : searches[i].query = Directives[i].query
          /\ (calls # <<>> /\ calls[1].kind = "FINALIZE") => batches = <<>>
          /\ (Len(calls) = 2 /\ calls[1].kind = "SEARCH" /\ calls[2].kind = "FINALIZE")
                => Len(batches) = 1 /\ batches[1].query = calls[1].query
          /\ returned.done => returned.batches = batches)
    /\ [][batches' # batches =>
            /\ status = "SEARCHING" /\ spc = "done" /\ ret.kind = "value"
            /\ batches' = Append(batches, [query |-> pending, result |-> ret.text])]_vars

C14_Witness ==
    /\ Len(batches) = 2 /\ batches[1].query = "q2" /\ batches[2].query = "q1"
    /\ Len(searches) = 2

C14_WitnessFailedSearch ==
    /\ Len(batches) = 1 /\ Len(searches) = 2 /\ searches[2].kind = "ValueError"
    /\ status = "FAILED" /\ returned.batches = batches

\* a reply that asks for the corrective re-prompt: unparseable, and not itself
\* the reply to a re-prompt
Malformed(i) == calls[i].kind = "UNPARSEABLE" /\ ~calls[i].corrective

\* the call after call i is the corrective re-prompt, or is about to be
RepromptFollows(i) ==
    IF i = Len(calls) THEN status = "AWAITING_DECISION" /\ reprompt
    ELSE calls[i + 1].corrective

\* the search directive of call i is being served or has been: the search
\* call for it has ended, or the run is SEARCHING with its query
Served(i) ==
    LET j == Len(SelectSeq(SubSeq(calls, 1, i), LAMBDA c : c.kind = "SEARCH" /\ ~c.forced))
    IN  \/ Len(searches) >= j /\ searches[j].query = calls[i].query
        \/ i = Len(calls) /\ status = "SEARCHING" /\ pending = calls[i].query
              /\ Len(searches) = j - 1

\* what the re-prompt rule says of the calls, given the replies it covers
RepromptRule(Covered(_)) ==
    /\ \A i \in DOMAIN calls :
         /\ Covered(i) => RepromptFollows(i)
         /\ calls[i].corrective => i > 1 /\ Covered(i - 1)
         /\ (calls[i].corrective /\ calls[i].kind = "UNPARSEABLE") =>
              /\ i = Len(calls) /\ status = "FAILED" /\ verdict = "none"
              /\ returned.done /\ returned.verdict = "none"
         /\ (calls[i].corrective /\ calls[i].kind = "FINALIZE") =>
              i = Len(calls) /\ status = "DONE"
         /\ (calls[i].corrective /\ calls[i].kind = "SEARCH" /\ ~calls[i].forced) =>
              Served(i)
    /\ (reprompt /\ ~RunOver) => calls # <<>> /\ Covered(Len(calls))

MalformedInBudget(i) == Malformed(i) /\ ~calls[i].forced

C15_WitnessTwice ==
    /\ Len(calls) = 2 /\ budget = 3 /\ Malformed(1)
    /\ calls[2].corrective /\ calls[2].kind = "UNPARSEABLE" /\ status = "FAILED"

FinalizeTrue == {"ANSWER: TRUE", "answer: true"}
FinalizeFalse == {"Answer: False"}
SearchMarkers == {"SEARCH:", "search:"}
Holds(S) == \E i \in DOMAIN reply_text : reply_text[i] \in S

\* C16: a reply holding a finalize marker, in any case, yields FINALIZE with
\* the answer of such a marker, whether or not it also holds a search marker;
\* a reply holding only a search marker yields SEARCH with the query that
\* follows a search marker; a reply holding neither yields UNPARSEABLE.
C16_FinalizeTakesPrecedence ==
    dpc = "decided" =>
        /\ Holds(FinalizeTrue \cup FinalizeFalse) =>
             /\ decision.kind = "FINALIZE"
             /\ decision.answer \in {"TRUE", "FALSE"}
             /\ decision.answer = "TRUE" => Holds(FinalizeTrue)
             /\ decision.answer = "FALSE" => Holds(FinalizeFalse)
        /\ (~Holds(FinalizeTrue \cup FinalizeFalse) /\ Holds(SearchMarkers)) =>
             /\ decision.kind = "SEARCH"
             /\ \E i \in DOMAIN reply_text :
                  /\ reply_text[i] \in SearchMarkers
                  /\ decision.query =
                       IF i < Len(reply_text) /\ reply_text[i + 1] # NL
                       THEN reply_text[i + 1] ELSE ""
        /\ (~Holds(FinalizeTrue \cup FinalizeFalse) /\ ~Holds(SearchMarkers)) =>
             decision.kind = "UNPARSEABLE"

C16_Witness ==
    /\ dpc = "decided"
    /\ reply_text = <<"search:", "q1", "Answer: False">>
    /\ decision = [kind |-> "FINALIZE", answer |-> "FALSE", query |-> ""]

RECURSIVE SumReturned(_, _)
SumReturned(log, f) ==
    IF log = <<>> THEN 0
    ELSE (IF IsNoneUsage(log[1].usage) THEN 0 ELSE log[1].usage[f])
         + SumReturned(Tail(log), f)

\* C20: after any number of processed claims, failed_cnt plus the lines
\* written is that number, a claim being counted as failed exactly when its
\* Verdict is null and written exactly when it is not, and total_usage is the
\* sum of the usage of all the runs so far, the failed ones included.
C20_BatchAccounting ==
    bpc # "idle" =>
        /\ Len(outcomes) = processed
        /\ failed_cnt + Len(written) = processed
        /\ failed_cnt = Cardinality({j \in DOMAIN outcomes : outcomes[j].verdict = "none"})
        /\ {written[j].claim : j \in DOMAIN written}
              = {j \in DOMAIN outcomes : outcomes[j].verdict # "none"}
        /\ \A j \in DOMAIN written :
              /\ written[j].result = outcomes[written[j].claim].verdict
              /\ written[j].searches = outcomes[written[j].claim].batches
              /\ j > 1 => written[j - 1].claim < written[j].claim
        /\ total_usage = [input_tokens |-> SumReturned(outcomes, "input_tokens"),
                          output_tokens |-> SumReturned(outcomes, "output_tokens")]

C20_Witness ==
    /\ bpc = "summary" /\ processed = num_samples
    /\ failed_cnt = 2 /\ Len(written) = 1 /\ written[1].claim = 2
    /\ outcomes[1].verdict = "none" /\ outcomes[1].usage = [input_tokens |-> 2, output_tokens |-> 3]
    /\ outcomes[3].verdict = "none" /\ IsNoneUsage(outcomes[3].usage)
    /\ total_usage = [input_tokens |-> 3, output_tokens |-> 4]

\* the settings of a model, whether cached or selected
Settings(m) ==
    [model_id |-> m.model_id, temperature |-> m.temperature, max_tokens |-> m.max_tokens]

Rebuilt(i) == submissions[i].used # submissions[i].before

\* C21: in a session the cached model is replaced only by a submission whose
\* selected model identifier differs from the cached one (or that finds no
\* cached model), and is then built from the selected settings; so a
\* submission that changes only the temperature or the max tokens is verified
\* with the settings of the earlier submission, not the selected ones.
C21_ModelRebuiltOnlyOnNewId ==
    /\ [](/\ \A i \in DOMAIN submissions :
               LET s == submissions[i]
               IN  /\ Rebuilt(i) <=>
                        (~s.before.built \/ s.before.model_id # s.selected.model_id)
                   /\ Rebuilt(i) => s.used.built /\ Settings(s.used) = s.selected
                   /\ s.used.model_id = s.selected.model_id
                   /\ i > 1 => /\ s.before = submissions[i - 1].used
                               /\ (s.selected.model_id = submissions[i - 1].selected.model_id
                                     => s.used = submissions[i - 1].used)
          /\ submissions # <<>> => session_model = submissions[Len(submissions)].used
          /\ submissions = <<>> => session_model = NoModel)
    /\ [][session_model' # session_model => submissions' # submissions]_vars

C21_Witness ==
    /\ Len(submissions) = 2
    /\ submissions[1].selected = [model_id |-> "gemini-2.5-flash-lite",
                                  temperature |-> 5, max_tokens |-> 2048]
    /\ submissions[2].selected = [model_id |-> "gemini-2.5-flash-lite",
                                  temperature |-> 7, max_tokens |-> 4096]
    /\ ~Rebuilt(2)
    /\ session_model.temperature = 5 /\ session_model.max_tokens = 2048
    /\ temperature = 7 /\ max_tokens = 4096

\* no section of the response yields an item: the answer box has no non-empty
\* string answer or snippet, the knowledge graph no type, description or
\* attribute, and the first k ranked results no snippet key and no attribute
NothingToExtract ==
    /\ results.answerBox.has =>
         /\ ~(results.answerBox.answer.t = "str" /\ results.answerBox.answer.v # <<>>)
         /\ ~(results.answerBox.snippet.t = "str" /\ results.answerBox.snippet.v # <<>>)
    /\ results.knowledgeGraph.has =>
         /\ ~Truthy(results.knowledgeGraph.type)
         /\ ~Truthy(results.knowledgeGraph.description)
         /\ results.knowledgeGraph.attributes = <<>>
    /\ results.organic.has =>
         \A i \in DOMAIN results.organic.list :
             i <= k => /\ ~results.organic.list[i].hasSnippet
                       /\ results.organic.list[i].attributes = <<>>

PlaceholderPositions == {i \in DOMAIN items : items[i].snippet = NO_RESULT_MSG}

\* C11: the item list is never empty; the "no result found" placeholder is in
\* it exactly when no section yields an item, and then it is the only item,
\* carries no link, and the evidence text holds no citation marker.
C11_PlaceholderIffNothing ==
    Parsed =>
        /\ Len(items) >= 1
        /\ (PlaceholderPositions # {}) <=> NothingToExtract
        /\ PlaceholderPositions # {} =>
             /\ Len(items) = 1
             /\ items[1].link = <<>>
             /\ items[1].title = <<"No Result">>
             /\ text = NO_RESULT_MSG
             /\ ~HasMarker(text)
             /\ \A n \in DOMAIN text : text[n] # SOURCE_OPEN

C11_Witness ==
    /\ Parsed
    /\ PlaceholderPositions = {1}
    /\ results.organic.has /\ Len(results.organic.list) = 2 /\ k = 0
    /\ results.answerBox.has /\ results.answerBox.answer.t = "num"

====
